---- MODULE Spec2Model ----
(***************************************************************************)
(* statsd process bootstrap and event-loop host                            *)
(* (cmds/statsd/src/main.cpp).                                             *)
(*                                                                         *)
(* The main thread executes the statements of main() one after another;    *)
(* pc names the statement it executes next.  Binder pool threads serve     *)
(* inbound calls of peers once "stats" is published, and the socket        *)
(* listener's reader delivers frames once the listener runs.  A process    *)
(* exit stops every thread.                                                *)
(*                                                                         *)
(* The statements after the while(true) loop (ALOGW("statsd escaped from   *)
(* its loop."); return 1;  lines 82-84) have no path leading to them: the  *)
(* loop has no break.  No action models them.                              *)
(***************************************************************************)
EXTENDS Integers, Sequences, FiniteSets, TLC

\* ---- bounds of the model ----
NumPeers  == 2    \* peer processes issuing inbound calls
MaxPolls  == 2    \* returns of pollAll that are explored
MaxQueue  == 1    \* messages pending on the Looper
MaxFrames == 1    \* datagrams delivered by the reader thread
MaxCalls  == 2    \* inbound calls completed by the pool

\* ---- program constants ----
PoolCap == 9      \* ps->setThreadPoolMaxThreadCount(9)
Backlog == 600    \* socketListener->startListener(600)
InfiniteTimeout == -1   \* looper->pollAll(-1)

Peers == 1 .. NumPeers

\* status_t / int results the external collaborators may hand back
Results == {-1, 0, 1}
\* outcomes of the void hooks, invisible to main
HookOutcomes == {"ok", "failed"}

AddServiceFailedLog == <<"E", "Failed to add service">>
UsingSocketLog      == <<"I", "using statsd socket">>
EscapedLog          == <<"W", "statsd escaped from its loop.">>

VARIABLES
    pc,             \* statement of main() executed next
    exited,         \* the process has ended
    exitStatus,     \* value returned from main / passed to exit()
    trace,          \* calls made by the main thread, in order
    logs,           \* log records emitted by main
    looper,         \* Looper::prepare has produced the handle
    maxThreads,     \* ProcessState thread pool cap
    poolStarted,    \* ProcessState::startThreadPool done
    poolNamed,      \* ProcessState::giveThreadPoolName done
    bgDisabled,     \* background scheduling disabled
    service,        \* StatsService constructed
    registered,     \* "stats" published in the service manager
    greeted,        \* sayHiToStatsCompanion has run
    startedUp,      \* Startup has returned
    socketListener, \* StatsSocketListener constructed
    listening,      \* startListener succeeded
    backlog,        \* backlog handed to startListener
    addRes,         \* result of addService
    listenRes,      \* result of startListener
    greetRes,       \* outcome of the greeting hook
    startupRes,     \* outcome of the startup hook
    pollTimeout,    \* timeout of the latest pollAll call
    polls,          \* number of returns of pollAll
    queue,          \* messages pending on the Looper
    calls,          \* per peer: "idle" or "running" on a pool thread
    served,         \* inbound calls completed
    frames          \* frames delivered by the reader thread

mainVars    == <<pc, exited, exitStatus, trace, logs>>
runtimeVars == <<maxThreads, poolStarted, poolNamed, bgDisabled>>
serviceVars == <<service, registered, greeted, startedUp, addRes, greetRes, startupRes>>
socketVars  == <<socketListener, listening, backlog, listenRes>>
loopVars    == <<looper, pollTimeout, polls>>
workVars    == <<queue, calls, served, frames>>

vars == <<mainVars, runtimeVars, serviceVars, socketVars, loopVars, workVars>>

\* Value a parent process observes for an exit status: its low 8 bits.
ObservedStatus(s) == s % 256

\* Statement order of main(): the statement reached when the one named
\* completes without leaving main.
FollowsStartupFirst ==
    [ prepare                     |-> "setThreadPoolMaxThreadCount",
      setThreadPoolMaxThreadCount |-> "startThreadPool",
      startThreadPool             |-> "giveThreadPoolName",
      giveThreadPoolName          |-> "disableBackgroundScheduling",
      disableBackgroundScheduling |-> "StatsService",
      StatsService                |-> "addService",
      addService                  |-> "Startup",
      Startup                     |-> "sayHiToStatsCompanion",
      sayHiToStatsCompanion       |-> "StatsSocketListener",
      StatsSocketListener         |-> "startListener",
      startListener               |-> "pollAll",
      pollAll                     |-> "pollAll" ]

FollowsListenEarly ==
    [ prepare                     |-> "setThreadPoolMaxThreadCount",
      setThreadPoolMaxThreadCount |-> "startThreadPool",
      startThreadPool             |-> "giveThreadPoolName",
      giveThreadPoolName          |-> "disableBackgroundScheduling",
      disableBackgroundScheduling |-> "StatsService",
      StatsService                |-> "addService",
      addService                  |-> "sayHiToStatsCompanion",
      sayHiToStatsCompanion       |-> "StatsSocketListener",
      StatsSocketListener         |-> "startListener",
      startListener               |-> "Startup",
      Startup                     |-> "pollAll",
      pollAll                     |-> "pollAll" ]

Follows ==
    [ prepare                     |-> "setThreadPoolMaxThreadCount",
      setThreadPoolMaxThreadCount |-> "startThreadPool",
      startThreadPool             |-> "giveThreadPoolName",
      giveThreadPoolName          |-> "disableBackgroundScheduling",
      disableBackgroundScheduling |-> "StatsService",
      StatsService                |-> "addService",
      addService                  |-> "sayHiToStatsCompanion",
      sayHiToStatsCompanion       |-> "Startup",
      Startup                     |-> "StatsSocketListener",
      StatsSocketListener         |-> "startListener",
      startListener               |-> "pollAll",
      pollAll                     |-> "pollAll" ]

Init ==
    /\ pc = "prepare"
    /\ exited = FALSE
    /\ exitStatus = 0
    /\ trace = << >>
    /\ logs = {}
    /\ looper = FALSE
    /\ maxThreads = 0
    /\ poolStarted = FALSE
    /\ poolNamed = FALSE
    /\ bgDisabled = FALSE
    /\ service = FALSE
    /\ registered = FALSE
    /\ greeted = FALSE
    /\ startedUp = FALSE
    /\ socketListener = FALSE
    /\ listening = FALSE
    /\ backlog = 0
    /\ addRes = 0
    /\ listenRes = 0
    /\ greetRes = "ok"
    /\ startupRes = "ok"
    /\ pollTimeout = 0
    /\ polls = 0
    /\ queue = 0
    /\ calls = [p \in Peers |-> "idle"]
    /\ served = 0
    /\ frames = 0

\* The main thread is about to execute statement s.
At(s) == ~exited /\ pc = s

\* sp<Looper> looper(Looper::prepare(0));
PrepareLooper ==
    /\ At("prepare")
    /\ looper' = TRUE
    /\ trace' = Append(trace, "prepare")
    /\ pc' = Follows["prepare"]
    /\ UNCHANGED <<exited, exitStatus, logs, pollTimeout, polls>>
    /\ UNCHANGED <<runtimeVars, serviceVars, socketVars, workVars>>

SetThreadPoolMaxThreadCountOne ==
    /\ At("setThreadPoolMaxThreadCount")
    /\ maxThreads' = 1
    /\ trace' = Append(trace, "setThreadPoolMaxThreadCount")
    /\ pc' = Follows["setThreadPoolMaxThreadCount"]
    /\ UNCHANGED <<exited, exitStatus, logs, poolStarted, poolNamed, bgDisabled>>
    /\ UNCHANGED <<serviceVars, socketVars, loopVars, workVars>>

\* ps->setThreadPoolMaxThreadCount(9);
SetThreadPoolMaxThreadCount ==
    /\ At("setThreadPoolMaxThreadCount")
    /\ maxThreads' = PoolCap
    /\ trace' = Append(trace, "setThreadPoolMaxThreadCount")
    /\ pc' = Follows["setThreadPoolMaxThreadCount"]
    /\ UNCHANGED <<exited, exitStatus, logs, poolStarted, poolNamed, bgDisabled>>
    /\ UNCHANGED <<serviceVars, socketVars, loopVars, workVars>>

StartThreadPoolSkipped ==
    /\ At("startThreadPool")
    /\ poolStarted' = FALSE
    /\ trace' = Append(trace, "startThreadPool")
    /\ pc' = Follows["startThreadPool"]
    /\ UNCHANGED <<exited, exitStatus, logs, maxThreads, poolNamed, bgDisabled>>
    /\ UNCHANGED <<serviceVars, socketVars, loopVars, workVars>>

\* ps->startThreadPool();
StartThreadPool ==
    /\ At("startThreadPool")
    /\ poolStarted' = TRUE
    /\ trace' = Append(trace, "startThreadPool")
    /\ pc' = Follows["startThreadPool"]
    /\ UNCHANGED <<exited, exitStatus, logs, maxThreads, poolNamed, bgDisabled>>
    /\ UNCHANGED <<serviceVars, socketVars, loopVars, workVars>>

\* ps->giveThreadPoolName();
GiveThreadPoolName ==
    /\ At("giveThreadPoolName")
    /\ poolNamed' = TRUE
    /\ trace' = Append(trace, "giveThreadPoolName")
    /\ pc' = Follows["giveThreadPoolName"]
    /\ UNCHANGED <<exited, exitStatus, logs, maxThreads, poolStarted, bgDisabled>>
    /\ UNCHANGED <<serviceVars, socketVars, loopVars, workVars>>

DisableBackgroundSchedulingFalse ==
    /\ At("disableBackgroundScheduling")
    /\ bgDisabled' = FALSE
    /\ trace' = Append(trace, "disableBackgroundScheduling")
    /\ pc' = Follows["disableBackgroundScheduling"]
    /\ UNCHANGED <<exited, exitStatus, logs, maxThreads, poolStarted, poolNamed>>
    /\ UNCHANGED <<serviceVars, socketVars, loopVars, workVars>>

\* IPCThreadState::self()->disableBackgroundScheduling(true);
DisableBackgroundScheduling ==
    /\ At("disableBackgroundScheduling")
    /\ bgDisabled' = TRUE
    /\ trace' = Append(trace, "disableBackgroundScheduling")
    /\ pc' = Follows["disableBackgroundScheduling"]
    /\ UNCHANGED <<exited, exitStatus, logs, maxThreads, poolStarted, poolNamed>>
    /\ UNCHANGED <<serviceVars, socketVars, loopVars, workVars>>

\* sp<StatsService> service = new StatsService(looper);
NewStatsService ==
    /\ At("StatsService")
    /\ service' = TRUE
    /\ trace' = Append(trace, "StatsService")
    /\ pc' = Follows["StatsService"]
    /\ UNCHANGED <<exited, exitStatus, logs>>
    /\ UNCHANGED <<registered, greeted, startedUp, addRes, greetRes, startupRes>>
    /\ UNCHANGED <<runtimeVars, socketVars, loopVars, workVars>>

AddServiceNoReturn ==
    /\ At("addService")
    /\ \E r \in Results :
        /\ addRes' = r
        /\ registered' = (r = 0)
        /\ trace' = Append(trace, "addService")
        /\ logs' = IF r # 0 THEN logs \cup {AddServiceFailedLog} ELSE logs
        /\ pc' = Follows["addService"]
        /\ UNCHANGED <<exited, exitStatus>>
    /\ UNCHANGED <<service, greeted, startedUp, greetRes, startupRes>>
    /\ UNCHANGED <<runtimeVars, socketVars, loopVars, workVars>>

AddServiceInverted ==
    /\ At("addService")
    /\ \E r \in Results :
        /\ addRes' = r
        /\ registered' = (r = 0)
        /\ trace' = Append(trace, "addService")
        /\ IF r = 0
             THEN /\ logs' = logs \cup {AddServiceFailedLog}
                  /\ exited' = TRUE
                  /\ exitStatus' = -1
                  /\ pc' = pc
             ELSE /\ pc' = Follows["addService"]
                  /\ UNCHANGED <<exited, exitStatus, logs>>
    /\ UNCHANGED <<service, greeted, startedUp, greetRes, startupRes>>
    /\ UNCHANGED <<runtimeVars, socketVars, loopVars, workVars>>

AddServiceReturn1 ==
    /\ At("addService")
    /\ \E r \in Results :
        /\ addRes' = r
        /\ registered' = (r = 0)
        /\ trace' = Append(trace, "addService")
        /\ IF r # 0
             THEN /\ logs' = logs \cup {AddServiceFailedLog}
                  /\ exited' = TRUE
                  /\ exitStatus' = 1
                  /\ pc' = pc
             ELSE /\ pc' = Follows["addService"]
                  /\ UNCHANGED <<exited, exitStatus, logs>>
    /\ UNCHANGED <<service, greeted, startedUp, greetRes, startupRes>>
    /\ UNCHANGED <<runtimeVars, socketVars, loopVars, workVars>>

AddServiceWrongName ==
    /\ At("addService")
    /\ \E r \in Results :
        /\ addRes' = r
        /\ registered' = FALSE
        /\ trace' = Append(trace, "addService")
        /\ IF r # 0
             THEN /\ logs' = logs \cup {AddServiceFailedLog}
                  /\ exited' = TRUE
                  /\ exitStatus' = -1
                  /\ pc' = pc
             ELSE /\ pc' = Follows["addService"]
                  /\ UNCHANGED <<exited, exitStatus, logs>>
    /\ UNCHANGED <<service, greeted, startedUp, greetRes, startupRes>>
    /\ UNCHANGED <<runtimeVars, socketVars, loopVars, workVars>>

\* if (defaultServiceManager()->addService(String16("stats"), service) != 0) {
\*     ALOGE("Failed to add service");  return -1;  }
AddService ==
    /\ At("addService")
    /\ \E r \in Results :
        /\ addRes' = r
        /\ registered' = (r = 0)
        /\ trace' = Append(trace, "addService")
        /\ IF r # 0
             THEN /\ logs' = logs \cup {AddServiceFailedLog}
                  /\ exited' = TRUE
                  /\ exitStatus' = -1
                  /\ pc' = pc
             ELSE /\ pc' = Follows["addService"]
                  /\ UNCHANGED <<exited, exitStatus, logs>>
    /\ UNCHANGED <<service, greeted, startedUp, greetRes, startupRes>>
    /\ UNCHANGED <<runtimeVars, socketVars, loopVars, workVars>>

SayHiToStatsCompanionChecked ==
    /\ At("sayHiToStatsCompanion")
    /\ \E o \in HookOutcomes :
        /\ greetRes' = o
        /\ IF o = "failed"
             THEN /\ logs' = logs \cup {<<"E", "Failed to greet companion">>}
                  /\ exited' = TRUE
                  /\ exitStatus' = 1
                  /\ pc' = pc
             ELSE /\ pc' = Follows["sayHiToStatsCompanion"]
                  /\ UNCHANGED <<exited, exitStatus, logs>>
    /\ greeted' = TRUE
    /\ trace' = Append(trace, "sayHiToStatsCompanion")
    /\ UNCHANGED <<service, registered, startedUp, addRes, startupRes>>
    /\ UNCHANGED <<runtimeVars, socketVars, loopVars, workVars>>

\* service->sayHiToStatsCompanion();   (void: its outcome is not visible)
SayHiToStatsCompanion ==
    /\ At("sayHiToStatsCompanion")
    /\ \E o \in HookOutcomes : greetRes' = o
    /\ greeted' = TRUE
    /\ trace' = Append(trace, "sayHiToStatsCompanion")
    /\ pc' = Follows["sayHiToStatsCompanion"]
    /\ UNCHANGED <<exited, exitStatus, logs>>
    /\ UNCHANGED <<service, registered, startedUp, addRes, startupRes>>
    /\ UNCHANGED <<runtimeVars, socketVars, loopVars, workVars>>

StartupRacy ==
    /\ At("Startup")
    /\ \E o \in HookOutcomes : startupRes' = o
    /\ startedUp' = TRUE
    /\ trace' = Append(trace, "Startup")
    /\ pc' = IF \E p \in Peers : calls[p] = "running"
               THEN "startListener"
               ELSE Follows["Startup"]
    /\ UNCHANGED <<exited, exitStatus, logs>>
    /\ UNCHANGED <<service, registered, greeted, addRes, greetRes>>
    /\ UNCHANGED <<runtimeVars, socketVars, loopVars, workVars>>

\* service->Startup();   (void: its outcome is not visible)
Startup ==
    /\ At("Startup")
    /\ \E o \in HookOutcomes : startupRes' = o
    /\ startedUp' = TRUE
    /\ trace' = Append(trace, "Startup")
    /\ pc' = Follows["Startup"]
    /\ UNCHANGED <<exited, exitStatus, logs>>
    /\ UNCHANGED <<service, registered, greeted, addRes, greetRes>>
    /\ UNCHANGED <<runtimeVars, socketVars, loopVars, workVars>>

\* sp<StatsSocketListener> socketListener = new StatsSocketListener(service);
NewStatsSocketListener ==
    /\ At("StatsSocketListener")
    /\ socketListener' = TRUE
    /\ trace' = Append(trace, "StatsSocketListener")
    /\ pc' = Follows["StatsSocketListener"]
    /\ UNCHANGED <<exited, exitStatus, logs>>
    /\ UNCHANGED <<listening, backlog, listenRes>>
    /\ UNCHANGED <<runtimeVars, serviceVars, loopVars, workVars>>

StartListenerIgnoreResult ==
    /\ At("startListener")
    /\ \E r \in Results :
        /\ listenRes' = r
        /\ listening' = (r = 0)
        /\ backlog' = Backlog
        /\ logs' = logs \cup {UsingSocketLog}
        /\ trace' = Append(trace, "startListener")
        /\ pc' = Follows["startListener"]
        /\ UNCHANGED <<exited, exitStatus>>
    /\ UNCHANGED socketListener
    /\ UNCHANGED <<runtimeVars, serviceVars, loopVars, workVars>>

StartListenerRetry ==
    /\ At("startListener")
    /\ \E r \in Results :
        /\ listenRes' = r
        /\ listening' = (r = 0)
        /\ backlog' = Backlog
        /\ logs' = logs \cup {UsingSocketLog}
        /\ trace' = Append(trace, "startListener")
        /\ pc' = IF r # 0 THEN pc ELSE Follows["startListener"]
        /\ UNCHANGED <<exited, exitStatus>>
    /\ UNCHANGED socketListener
    /\ UNCHANGED <<runtimeVars, serviceVars, loopVars, workVars>>

StartListenerUnregisters ==
    /\ At("startListener")
    /\ \E r \in Results :
        /\ listenRes' = r
        /\ listening' = (r = 0)
        /\ backlog' = Backlog
        /\ logs' = logs \cup {UsingSocketLog}
        /\ trace' = Append(trace, "startListener")
        /\ IF r # 0
             THEN /\ registered' = FALSE
                  /\ exited' = TRUE
                  /\ exitStatus' = 1
                  /\ pc' = pc
             ELSE /\ pc' = Follows["startListener"]
                  /\ UNCHANGED <<exited, exitStatus, registered>>
    /\ UNCHANGED socketListener
    /\ UNCHANGED <<service, greeted, startedUp, addRes, greetRes, startupRes>>
    /\ UNCHANGED <<runtimeVars, loopVars, workVars>>

\* ALOGI("using statsd socket");
\* if (socketListener->startListener(600)) { exit(1); }
StartListener ==
    /\ At("startListener")
    /\ \E r \in Results :
        /\ listenRes' = r
        /\ listening' = (r = 0)
        /\ backlog' = Backlog
        /\ logs' = logs \cup {UsingSocketLog}
        /\ trace' = Append(trace, "startListener")
        /\ IF r # 0
             THEN /\ exited' = TRUE
                  /\ exitStatus' = 1
                  /\ pc' = pc
             ELSE /\ pc' = Follows["startListener"]
                  /\ UNCHANGED <<exited, exitStatus>>
    /\ UNCHANGED socketListener
    /\ UNCHANGED <<runtimeVars, serviceVars, loopVars, workVars>>

PollAllZeroTimeout ==
    /\ At("pollAll")
    /\ pollTimeout' = 0
    /\ trace' = Append(trace, "pollAll")
    /\ pc' = "polling"
    /\ UNCHANGED <<exited, exitStatus, logs, looper, polls>>
    /\ UNCHANGED <<runtimeVars, serviceVars, socketVars, workVars>>

\* while (true) { looper->pollAll(-1); }  -- the call: main blocks in the poll
PollAll ==
    /\ At("pollAll")
    /\ pollTimeout' = InfiniteTimeout
    /\ trace' = Append(trace, "pollAll")
    /\ pc' = "polling"
    /\ UNCHANGED <<exited, exitStatus, logs, looper, polls>>
    /\ UNCHANGED <<runtimeVars, serviceVars, socketVars, workVars>>

\* Inside pollAll: a pending message is handed to its handler on the main thread.
RunHandler ==
    /\ At("polling")
    /\ queue > 0
    /\ queue' = queue - 1
    /\ pc' = "handler"
    /\ UNCHANGED <<exited, exitStatus, trace, logs, calls, served, frames>>
    /\ UNCHANGED <<runtimeVars, serviceVars, socketVars, loopVars>>

\* The handler runs to completion; control is back in the poll.
HandlerDone ==
    /\ At("handler")
    /\ pc' = "polling"
    /\ UNCHANGED <<exited, exitStatus, trace, logs>>
    /\ UNCHANGED <<runtimeVars, serviceVars, socketVars, loopVars, workVars>>

PollReturnEscape ==
    /\ At("polling")
    /\ polls < MaxPolls
    /\ polls' = polls + 1
    /\ logs' = logs \cup {EscapedLog}
    /\ exited' = TRUE
    /\ exitStatus' = 1
    /\ UNCHANGED <<pc, trace, looper, pollTimeout>>
    /\ UNCHANGED <<runtimeVars, serviceVars, socketVars, workVars>>

PollReturnRestart ==
    /\ At("polling")
    /\ polls < MaxPolls
    /\ polls' = polls + 1
    /\ pc' = "StatsSocketListener"
    /\ UNCHANGED <<exited, exitStatus, trace, logs, looper, pollTimeout>>
    /\ UNCHANGED <<runtimeVars, serviceVars, socketVars, workVars>>

\* pollAll returns to main; the loop body ends and while(true) runs it again.
PollReturn ==
    /\ At("polling")
    /\ polls < MaxPolls
    /\ polls' = polls + 1
    /\ pc' = Follows["pollAll"]
    /\ UNCHANGED <<exited, exitStatus, trace, logs, looper, pollTimeout>>
    /\ UNCHANGED <<runtimeVars, serviceVars, socketVars, workVars>>

\* ---- binder pool (runs beside the main thread) ----

\* A peer that resolved "stats" issues a call; a pool thread picks it up.
InboundCallBegin(p) ==
    /\ ~exited
    /\ poolStarted
    /\ registered
    /\ calls[p] = "idle"
    /\ Cardinality({q \in Peers : calls[q] = "running"}) < maxThreads
    /\ served < MaxCalls
    /\ calls' = [calls EXCEPT ![p] = "running"]
    /\ UNCHANGED <<queue, served, frames>>
    /\ UNCHANGED <<mainVars, runtimeVars, serviceVars, socketVars, loopVars>>

\* The call's handler posts work for the main thread to the Looper.
InboundCallPost(p) ==
    /\ ~exited
    /\ calls[p] = "running"
    /\ queue < MaxQueue
    /\ queue' = queue + 1
    /\ UNCHANGED <<calls, served, frames>>
    /\ UNCHANGED <<mainVars, runtimeVars, serviceVars, socketVars, loopVars>>

InboundCallEndWaitsForLoop(p) ==
    /\ ~exited
    /\ calls[p] = "running"
    /\ queue = 0
    /\ calls' = [calls EXCEPT ![p] = "idle"]
    /\ served' = served + 1
    /\ UNCHANGED <<queue, frames>>
    /\ UNCHANGED <<mainVars, runtimeVars, serviceVars, socketVars, loopVars>>

\* The call completes on its pool thread.
InboundCallEnd(p) ==
    /\ ~exited
    /\ calls[p] = "running"
    /\ calls' = [calls EXCEPT ![p] = "idle"]
    /\ served' = served + 1
    /\ UNCHANGED <<queue, frames>>
    /\ UNCHANGED <<mainVars, runtimeVars, serviceVars, socketVars, loopVars>>

\* ---- socket reader (runs beside the main thread) ----

\* The listener's reader hands a received frame to the service.
ReaderFrame ==
    /\ ~exited
    /\ listening
    /\ frames < MaxFrames
    /\ frames' = frames + 1
    /\ UNCHANGED <<queue, calls, served>>
    /\ UNCHANGED <<mainVars, runtimeVars, serviceVars, socketVars, loopVars>>

Main ==
    \/ PrepareLooper
    \/ SetThreadPoolMaxThreadCount
    \/ StartThreadPool
    \/ GiveThreadPoolName
    \/ DisableBackgroundScheduling
    \/ NewStatsService
    \/ AddService
    \/ SayHiToStatsCompanion
    \/ Startup
    \/ NewStatsSocketListener
    \/ StartListener
    \/ PollAll
    \/ RunHandler
    \/ HandlerDone
    \/ PollReturn

Next ==
    \/ Main
    \/ \E p \in Peers : InboundCallBegin(p)
    \/ \E p \in Peers : InboundCallPost(p)
    \/ \E p \in Peers : InboundCallEnd(p)
    \/ ReaderFrame

Spec == Init /\ [][Next]_vars

\* The main thread is scheduled as long as it has a statement to execute.
FairSpec == Spec /\ WF_vars(Main)

\* ---- vocabulary of the properties ----

\* The main thread has made the call named c.
Called(c) == \E i \in 1 .. Len(trace) : trace[i] = c

\* Position of the first call named c in the trace.
Pos(c) == CHOOSE i \in 1 .. Len(trace) : trace[i] = c

\* Number of calls named c in the trace.
Count(c) == Cardinality({i \in 1 .. Len(trace) : trace[i] = c})

\* The main thread is in the pump: about to call pollAll, or inside it.
InPump == pc \in {"pollAll", "polling", "handler"}

RegistrationFailed == Called("addService") /\ addRes # 0
ListenerFailed     == Called("startListener") /\ listenRes # 0

\* The bootstrap order the specification lists.
ExpectedOrder ==
    << "prepare", "setThreadPoolMaxThreadCount", "startThreadPool",
       "giveThreadPoolName", "disableBackgroundScheduling", "StatsService",
       "addService", "sayHiToStatsCompanion", "Startup",
       "StatsSocketListener", "startListener", "pollAll" >>

\* C1: when addService("stats") returns non-zero, main logs an error, the
\* process ends with exit status -1, and none of sayHiToStatsCompanion,
\* Startup, the StatsSocketListener construction, startListener or pollAll
\* is invoked in that run.
C1_RegistrationRefused ==
    RegistrationFailed =>
        /\ exited
        /\ exitStatus = -1
        /\ AddServiceFailedLog \in logs
        /\ \A c \in {"sayHiToStatsCompanion", "Startup", "StatsSocketListener",
                     "startListener", "pollAll"} : ~Called(c)
        /\ ~greeted /\ ~startedUp /\ ~socketListener /\ ~listening

C1_Witness == RegistrationFailed /\ exited /\ addRes = 1

\* C2: in every run where startListener(600) returns zero control reaches
\* the pump; in every run where it returns non-zero the process exits with
\* status 1 before the pump is entered, the service having been registered
\* and its Startup hook having run.
C2_ListenerOutcome ==
    /\ [](Called("startListener") =>
            IF listenRes = 0
              THEN ~exited /\ InPump
              ELSE /\ exited
                   /\ exitStatus = 1
                   /\ ~Called("pollAll")
                   /\ registered
                   /\ startedUp)
    /\ ((Called("startListener") /\ listenRes = 0) ~> Called("pollAll"))

C2_Witness == ListenerFailed /\ exited /\ exitStatus = 1 /\ startedUp

\* C3: in every run where addService returns zero, startListener (with
\* backlog 600) is reached; in every run where it returns non-zero,
\* startListener is never invoked.
C3_ListenerReached ==
    /\ [](RegistrationFailed => ~Called("startListener"))
    /\ ((Called("addService") /\ addRes = 0)
            ~> (Called("startListener") /\ backlog = 600))

C3_Witness == Called("addService") /\ addRes = 0 /\ Called("startListener")

\* C4: sayHiToStatsCompanion is invoked after addService has returned and
\* before Startup is invoked; never before registration, never after Startup.
C4_GreetingOrder ==
    /\ Called("sayHiToStatsCompanion") =>
          /\ Called("addService")
          /\ registered
          /\ Pos("addService") < Pos("sayHiToStatsCompanion")
          /\ Count("sayHiToStatsCompanion") = 1
    /\ Called("Startup") =>
          /\ Called("sayHiToStatsCompanion")
          /\ Pos("sayHiToStatsCompanion") < Pos("Startup")
    /\ greeted => registered
    /\ startedUp => greeted

C4_Witness == greeted /\ startedUp /\ greetRes = "failed"

C6_EscapeExits ==
    polls > 0 => (exited /\ exitStatus = 1 /\ EscapedLog \in logs)

\* C6 (amended): when pollAll returns to main after pump entry, main calls
\* pollAll again: the warning "statsd escaped from its loop." is never
\* emitted and the process does not exit.
C6_EscapeUnreachable ==
    /\ EscapedLog \notin logs
    /\ polls > 0 =>
          /\ ~exited
          /\ InPump
          /\ Count("pollAll") = polls + (IF pc = "pollAll" THEN 0 ELSE 1)

C6_Witness == polls > 0 /\ pc = "polling" /\ Count("pollAll") = 2

\* C7: once the pump is entered, every return of pollAll is followed by
\* another call of pollAll with the infinite timeout -1, and the main thread
\* never leaves the pump or ends the process.
C7_PumpForever ==
    /\ [][InPump => (InPump' /\ ~exited')]_vars
    /\ [](Called("pollAll") => (pollTimeout = -1 /\ ~exited))
    /\ ((polls > 0 /\ pc = "pollAll") ~> (pc = "polling" /\ pollTimeout = -1))

C7_Witness == polls = MaxPolls /\ pc = "polling" /\ pollTimeout = -1

\* C8: the exit status is never 0; the core exits with -1 exactly when
\* service registration failed and with 1 exactly when the socket listener
\* failed to start or the pump was left, and the two statuses differ as
\* observed by the parent.
C8_ExitStatus ==
    exited =>
        /\ exitStatus # 0
        /\ exitStatus \in {-1, 1}
        /\ (exitStatus = -1) <=> RegistrationFailed
        /\ (exitStatus = 1) <=> (ListenerFailed \/ EscapedLog \in logs)
        /\ ObservedStatus(exitStatus) # 0
        /\ (ObservedStatus(exitStatus) = 255) <=> RegistrationFailed
        /\ (ObservedStatus(exitStatus) = 1) <=> ListenerFailed

C8_Witness == exited /\ exitStatus = -1 /\ addRes = -1

\* C9: the calls of the main thread are a prefix of the listed bootstrap
\* order (the pump repeating its last entry); the Looper exists before any
\* component that may post to it, and startListener is invoked only after
\* Startup has returned.
C9_Serialized ==
    /\ \A i \in 1 .. Len(trace) :
          trace[i] = ExpectedOrder[IF i < Len(ExpectedOrder) THEN i ELSE Len(ExpectedOrder)]
    /\ service => looper
    /\ poolStarted => looper
    /\ socketListener => (looper /\ service)
    /\ Called("startListener") =>
          /\ startedUp
          /\ Pos("Startup") < Pos("startListener")

C9_Witness == Len(trace) > Len(ExpectedOrder) /\ listening

\* C10: after the first pollAll call the main thread performs no further
\* bootstrap side effect (construction, registration, greeting, Startup,
\* startListener): it only calls pollAll again.
C10_PumpTerminal ==
    [][Called("pollAll") =>
          /\ UNCHANGED <<runtimeVars, serviceVars, socketVars, looper, logs, exited>>
          /\ (trace' = trace \/ trace' = Append(trace, "pollAll"))]_vars

C10_Witness == Called("pollAll") /\ polls > 0 /\ served > 0 /\ pc = "handler"

\* Inbound calls in progress on pool threads.
Running == {p \in Peers : calls[p] = "running"}

\* C11: a peer that resolves "stats" and issues a call after addService
\* succeeded and before Startup has completed gets its call dispatched on a
\* pool thread at once: main neither defers the call until Startup or the
\* listener start is done nor rejects it.
C11_CallDuringBootstrap ==
    (~exited /\ Called("addService") /\ addRes = 0 /\ ~listening) =>
        \A p \in Peers :
            (calls[p] = "idle" /\ served < MaxCalls) => ENABLED InboundCallBegin(p)

C11_Witness == registered /\ ~startedUp /\ Running # {} /\ ~exited

\* C12: once addService has returned zero, a lookup of "stats" resolves to
\* the service object; before addService is invoked no lookup resolves to
\* it and no inbound call is dispatched to it, although the pool already
\* runs.
C12_Published ==
    /\ (Called("addService") /\ addRes = 0) => (registered /\ service)
    /\ ~Called("addService") =>
          /\ ~registered
          /\ Running = {}
          /\ served = 0
          /\ \A p \in Peers : ~ENABLED InboundCallBegin(p)
    /\ Running # {} => registered

C12_Witness == registered /\ served > 0 /\ Running # {}

\* C13: the pool does not suspend on the event loop: while the main thread
\* is blocked inside pollAll or runs a handler, a pool thread can accept an
\* inbound call and can complete one, so no pool thread waits for the main
\* thread's loop; work runs on the main thread only after it was posted to
\* the Looper.
C13_PoolIndependent ==
    /\ []((~exited /\ pc \in {"polling", "handler"}) =>
            \A p \in Peers :
                /\ calls[p] = "running" => ENABLED InboundCallEnd(p)
                /\ (calls[p] = "idle" /\ served < MaxCalls) => ENABLED InboundCallBegin(p))
    /\ [][(pc' = "handler" /\ pc # "handler") => (queue > 0 /\ queue' = queue - 1)]_vars
    /\ [][calls' # calls => UNCHANGED <<mainVars, loopVars>>]_vars

C13_Witness == ~exited /\ pc = "handler" /\ queue > 0 /\ Running # {}

C14_HooksNotInspected ==
    /\ [][(greeted' /\ ~greeted) =>
             (pc' = "Startup" /\ ~exited' /\ logs' = logs)]_vars
    /\ [][(startedUp' /\ ~startedUp) =>
             (pc' = "StatsSocketListener" /\ ~exited' /\ logs' = logs)]_vars
    /\ [](exited => (RegistrationFailed \/ ListenerFailed))
    /\ [](logs \subseteq {AddServiceFailedLog, UsingSocketLog})
    /\ []((~exited /\ pc = "startListener") => backlog = 0)
    /\ [](Called("startListener") => backlog = 600)

C14_Witness ==
    greetRes = "failed" /\ startupRes = "failed" /\ listening /\ InPump /\ ~exited

\* C15: no retry: addService is invoked at most once and startListener is
\* invoked at most once in a run; a non-zero result of either ends the
\* process at once, without a second attempt.
C15_NoRetry ==
    /\ Count("addService") <= 1
    /\ Count("startListener") <= 1
    /\ RegistrationFailed => (exited /\ trace[Len(trace)] = "addService")
    /\ ListenerFailed => (exited /\ trace[Len(trace)] = "startListener")

C15_Witness == ListenerFailed /\ exited /\ listenRes = -1 /\ Count("startListener") = 1

\* C17: when startListener fails the process exits with status 1 without
\* unregistering "stats" and without waiting for the pool: the exit leaves
\* the service published and greeted, and it can happen while an inbound
\* call is in progress on a pool thread.
C17_NoCleanup ==
    /\ [](ListenerFailed =>
            (exited /\ exitStatus = 1 /\ registered /\ greeted /\ ~listening))
    /\ [][(exited' /\ ~exited) =>
            (calls' = calls /\ registered' = registered /\ queue' = queue)]_vars
    /\ []((~exited /\ pc = "startListener") => ENABLED StartListener)

C17_Witness ==
    ListenerFailed /\ exited /\ exitStatus = 1 /\ registered /\ Running # {}

\* The calls a run has made after n main-thread calls, were it to follow the
\* listed order.
OrderedCalls(n) ==
    [i \in 1 .. n |->
        ExpectedOrder[IF i < Len(ExpectedOrder) THEN i ELSE Len(ExpectedOrder)]]

\* The log records a run has emitted, as a function of the collaborators'
\* results and of how far the run got.
OrderedLogs ==
    (IF RegistrationFailed THEN {AddServiceFailedLog} ELSE {})
        \cup (IF Called("startListener") THEN {UsingSocketLog} ELSE {})

\* C16: bootstrap is order-deterministic: the sequence of observable side
\* effects and the final outcome (exit -1, exit 1 or pump entered) are a
\* function of the collaborators' results alone, so two runs with the same
\* results agree on them however pool and reader threads interleave.
C16_Deterministic ==
    /\ [](trace = OrderedCalls(Len(trace)))
    /\ [](logs = OrderedLogs)
    /\ []((~exited /\ Len(trace) < Len(ExpectedOrder))
              => pc = ExpectedOrder[Len(trace) + 1])
    /\ [](Called("addService") =>
            IF addRes # 0
              THEN exited /\ exitStatus = -1 /\ Len(trace) = 7
              ELSE registered /\ (exited => Called("startListener")))
    /\ [](Called("startListener") =>
            IF listenRes # 0
              THEN exited /\ exitStatus = 1 /\ Len(trace) = 11
              ELSE ~exited /\ InPump)
    /\ [][(calls' # calls \/ frames' # frames \/ queue' > queue) =>
            UNCHANGED <<mainVars, runtimeVars, serviceVars, socketVars, loopVars>>]_vars
    /\ []((~exited /\ pc \notin {"polling", "handler"}) => ENABLED Main)

C16_Witness ==
    /\ ~exited /\ InPump
    /\ served > 0 /\ frames > 0 /\ Running # {}
    /\ startupRes = "failed"

====
